---- MODULE Spec2Model ----
(***************************************************************************)
(* Smart Student Expense Tracker (src/app.py): the categorizer             *)
(* smart_category, the pay-cycle calculator get_cycle_dates, the budget    *)
(* projection and the add / edit / delete / clear / reset handlers over    *)
(* the two SQLite tables expenses and category_cache.                      *)
(*                                                                         *)
(* Strings are sequences of one-character strings, so that strip(),        *)
(* lower(), replace() and the substring test are computed, not assumed.    *)
(* Amounts are integers in thousandths of a euro (12.345 is 12345).        *)
(* Dates are triples <<year, month, day>>.                                 *)
(***************************************************************************)
EXTENDS Integers, Sequences, FiniteSets, TLC

VARIABLES
  expenses,        \* table expenses: set of rows [id, date, description, amount, category]
  seq,             \* AUTOINCREMENT counter of expenses.id
  category_cache,  \* table category_cache: function description -> category
  confirm_reset,   \* st.session_state.confirm_reset
  monthly_income,  \* st.session_state.monthly_income
  today,           \* date.today()
  sc,              \* the last smart_category call since the cache was cleared, or NoCall
  msg,             \* what the last handler reported: "none", "success", "error", "warning"
  dberr,           \* TRUE iff run_query reported a database error in the last step
  view             \* the header metrics and budget line of the last render, or NoView

vars == <<expenses, seq, category_cache, confirm_reset, monthly_income, today,
          sc, msg, dberr, view>>

----------------------------------------------------------------------------
(* Bounds *)

MaxId == 1          \* at most this many rows are ever inserted
MinYear == 2023     \* SpecCycle draws today from MinYear..MaxYear
MaxYear == 2024

----------------------------------------------------------------------------
(* Strings *)

UpperAlpha == <<"A","B","C","D","E","F","G","H","I","J","K","L","M",
           "N","O","P","Q","R","S","T","U","V","W","X","Y","Z">>
LowerAlpha == <<"a","b","c","d","e","f","g","h","i","j","k","l","m",
           "n","o","p","q","r","s","t","u","v","w","x","y","z">>

Whitespace == {" ", "\t", "\n", "\r", "\f"}

\* the upper-case letters and their lower-case forms
RECURSIVE CaseMap(_)
CaseMap(n) == IF n = 0 THEN <<>> ELSE (UpperAlpha[n] :> LowerAlpha[n]) @@ CaseMap(n - 1)

ToLower == CaseMap(Len(UpperAlpha))

\* str.lower() on one character
LowerChar(c) == IF c \in DOMAIN ToLower THEN ToLower[c] ELSE c

\* str.lower()
lower(s) == [i \in 1..Len(s) |-> LowerChar(s[i])]

RECURSIVE lstrip(_)
\* str.lstrip(): drops leading whitespace
lstrip(s) ==
  IF s # <<>> /\ Head(s) \in Whitespace THEN lstrip(Tail(s)) ELSE s

RECURSIVE rstrip(_)
\* str.rstrip(): drops trailing whitespace
rstrip(s) ==
  IF s # <<>> /\ s[Len(s)] \in Whitespace THEN rstrip(SubSeq(s, 1, Len(s) - 1)) ELSE s

\* a strip() that drops nothing
StripNothing(s) == s

\* str.strip(): drops leading and trailing whitespace
strip(s) == rstrip(lstrip(s))

\* str.replace(".", "")
RECURSIVE RemoveDots(_)
RemoveDots(s) ==
  IF s = <<>> THEN <<>>
  ELSE IF Head(s) = "." THEN RemoveDots(Tail(s))
  ELSE <<Head(s)>> \o RemoveDots(Tail(s))

\* keyword in text
Contains(text, keyword) ==
  \E i \in 0..(Len(text) - Len(keyword)) :
     SubSeq(text, i + 1, i + Len(keyword)) = keyword

----------------------------------------------------------------------------
(* Category labels *)

Food           == <<"F","o","o","d">>
Transportation == <<"T","r","a","n","s","p","o","r","t","a","t","i","o","n">>
Entertainment  == <<"E","n","t","e","r","t","a","i","n","m","e","n","t">>
Utilities      == <<"U","t","i","l","i","t","i","e","s">>
Shopping       == <<"S","h","o","p","p","i","n","g">>
Education      == <<"E","d","u","c","a","t","i","o","n">>
Health         == <<"H","e","a","l","t","h">>
Other          == <<"O","t","h","e","r">>

\* the eight labels of the classifier instruction
Labels == {Food, Transportation, Entertainment, Utilities, Shopping,
           Education, Health, Other}

\* the rule table, in the dict's insertion order
mapping ==
  <<
  [cat |-> <<"T","r","a","n","s","p","o","r","t","a","t","i","o","n">>,
   keywords |-> <<
       <<"u","b","e","r">>,
       <<"t","a","x","i">>,
       <<"b","o","l","t">>,
       <<"l","y","f","t">>,
       <<"t","r","a","i","n">>,
       <<"b","u","s">>,
       <<"m","e","t","r","o">>,
       <<"s","u","b","w","a","y">>,
       <<"g","a","s">>,
       <<"f","u","e","l">>,
       <<"p","e","t","r","o","l">>,
       <<"p","a","r","k","i","n","g">>,
       <<"b","i","k","e">>,
       <<"s","c","o","o","t","e","r">>,
       <<"c","a","r">>,
       <<"t","r","a","n","s","p","o","r","t">>,
       <<"r","i","d","e">>,
       <<"t","r","i","p">>>>],
  [cat |-> <<"F","o","o","d">>,
   keywords |-> <<
       <<"p","i","z","z","a">>,
       <<"b","u","r","g","e","r">>,
       <<"m","c","d","o","n","a","l","d","s">>,
       <<"k","f","c">>,
       <<"d","o","m","i","n","o","s">>,
       <<"s","u","b","w","a","y">>,
       <<"s","u","s","h","i">>,
       <<"t","h","a","i">>,
       <<"c","h","i","n","e","s","e">>,
       <<"i","n","d","i","a","n">>,
       <<"r","e","s","t","a","u","r","a","n","t">>,
       <<"c","o","f","f","e","e">>,
       <<"s","t","a","r","b","u","c","k","s">>,
       <<"c","a","f","e">>,
       <<"t","e","a">>,
       <<"d","r","i","n","k">>,
       <<"b","e","v","e","r","a","g","e">>,
       <<"j","u","i","c","e">>,
       <<"s","o","d","a">>,
       <<"c","o","k","e">>,
       <<"p","e","p","s","i">>,
       <<"s","p","r","i","t","e">>,
       <<"f","a","n","t","a">>,
       <<"r","e","d"," ","b","u","l","l">>,
       <<"r","e","d","b","u","l","l">>,
       <<"e","n","e","r","g","y"," ","d","r","i","n","k">>,
       <<"w","a","t","e","r">>,
       <<"m","i","l","k">>,
       <<"l","u","n","c","h">>,
       <<"d","i","n","n","e","r">>,
       <<"b","r","e","a","k","f","a","s","t">>,
       <<"b","r","u","n","c","h">>,
       <<"f","o","o","d">>,
       <<"m","e","a","l">>,
       <<"e","a","t">>,
       <<"s","n","a","c","k">>,
       <<"g","r","o","c","e","r","y">>,
       <<"s","u","p","e","r","m","a","r","k","e","t">>,
       <<"b","a","k","e","r","y">>,
       <<"d","e","l","i">>,
       <<"m","a","r","k","e","t">>,
       <<"p","r","o","d","u","c","e">>,
       <<"b","r","e","a","d">>,
       <<"c","h","e","e","s","e">>,
       <<"m","e","a","t">>,
       <<"v","e","g","e","t","a","b","l","e">>,
       <<"f","r","u","i","t">>>>],
  [cat |-> <<"E","n","t","e","r","t","a","i","n","m","e","n","t">>,
   keywords |-> <<
       <<"n","e","t","f","l","i","x">>,
       <<"s","p","o","t","i","f","y">>,
       <<"c","i","n","e","m","a">>,
       <<"m","o","v","i","e">>,
       <<"g","a","m","e">>,
       <<"p","u","b">>,
       <<"b","a","r">>,
       <<"c","l","u","b">>,
       <<"c","o","n","c","e","r","t">>,
       <<"t","h","e","a","t","e","r">>,
       <<"t","h","e","a","t","r","e">>,
       <<"y","o","u","t","u","b","e">>,
       <<"t","w","i","t","c","h">>,
       <<"s","t","e","a","m">>,
       <<"p","l","a","y","s","t","a","t","i","o","n">>,
       <<"x","b","o","x">>,
       <<"n","i","n","t","e","n","d","o">>,
       <<"p","a","r","t","y">>,
       <<"e","v","e","n","t">>,
       <<"t","i","c","k","e","t">>,
       <<"s","h","o","w">>>>],
  [cat |-> <<"U","t","i","l","i","t","i","e","s">>,
   keywords |-> <<
       <<"e","l","e","c","t","r","i","c","i","t","y">>,
       <<"w","a","t","e","r">>,
       <<"g","a","s"," ","b","i","l","l">>,
       <<"i","n","t","e","r","n","e","t">>,
       <<"w","i","f","i">>,
       <<"p","h","o","n","e"," ","b","i","l","l">>,
       <<"m","o","b","i","l","e">>,
       <<"r","e","n","t">>,
       <<"h","e","a","t","i","n","g">>,
       <<"u","t","i","l","i","t","y">>,
       <<"b","i","l","l">>>>],
  [cat |-> <<"S","h","o","p","p","i","n","g">>,
   keywords |-> <<
       <<"a","m","a","z","o","n">>,
       <<"e","b","a","y">>,
       <<"c","l","o","t","h","e","s">>,
       <<"c","l","o","t","h","i","n","g">>,
       <<"s","h","o","e","s">>,
       <<"s","h","i","r","t">>,
       <<"p","a","n","t","s">>,
       <<"d","r","e","s","s">>,
       <<"m","a","l","l">>,
       <<"s","t","o","r","e">>,
       <<"s","h","o","p">>,
       <<"z","a","r","a">>,
       <<"h","&","m">>,
       <<"n","i","k","e">>,
       <<"a","d","i","d","a","s">>,
       <<"o","n","l","i","n","e">>,
       <<"p","u","r","c","h","a","s","e">>>>],
  [cat |-> <<"E","d","u","c","a","t","i","o","n">>,
   keywords |-> <<
       <<"b","o","o","k">>,
       <<"t","e","x","t","b","o","o","k">>,
       <<"c","o","u","r","s","e">>,
       <<"t","u","i","t","i","o","n">>,
       <<"s","c","h","o","o","l">>,
       <<"u","n","i","v","e","r","s","i","t","y">>,
       <<"c","o","l","l","e","g","e">>,
       <<"s","t","a","t","i","o","n","e","r","y">>,
       <<"n","o","t","e","b","o","o","k">>,
       <<"p","e","n">>,
       <<"p","e","n","c","i","l">>,
       <<"s","t","u","d","y">>,
       <<"l","i","b","r","a","r","y">>,
       <<"c","l","a","s","s">>,
       <<"l","e","c","t","u","r","e">>>>],
  [cat |-> <<"H","e","a","l","t","h">>,
   keywords |-> <<
       <<"p","h","a","r","m","a","c","y">>,
       <<"m","e","d","i","c","i","n","e">>,
       <<"d","o","c","t","o","r">>,
       <<"h","o","s","p","i","t","a","l">>,
       <<"c","l","i","n","i","c">>,
       <<"g","y","m">>,
       <<"f","i","t","n","e","s","s">>,
       <<"h","e","a","l","t","h">>,
       <<"m","e","d","i","c","a","l">>,
       <<"p","r","e","s","c","r","i","p","t","i","o","n">>,
       <<"d","e","n","t","i","s","t">>,
       <<"v","i","t","a","m","i","n">>,
       <<"s","u","p","p","l","e","m","e","n","t">>>>]
  >>

\* any(keyword in text for keyword in keywords), for the i-th category
RuleHit(i, text) ==
  \E k \in 1..Len(mapping[i].keywords) : Contains(text, mapping[i].keywords[k])

\* a loop that does not break: the last category with a hit
LastMatch(hits) == CHOOSE i \in hits : \A j \in hits : j <= i

\* the index the for loop breaks at: the first category with a hit
FirstMatch(hits) == CHOOSE i \in hits : \A j \in hits : i <= j

\* the rule tier: the set is empty when category stays None
RuleMatches(text) == {i \in 1..Len(mapping) : RuleHit(i, text)}

----------------------------------------------------------------------------
(* Inputs of the forms *)

Empty     == <<>>
Blank     == <<" ">>
WaterDesc == <<" ","W","a","t","e","r">>
XyzDesc   == <<"x","y","z">>
Misc      == <<"M","i","s","c">>

\* what the user types into a description field
Descriptions == {Empty, Blank, WaterDesc, XyzDesc}

----------------------------------------------------------------------------
(* The remote classifier: it answers with some text or the call fails *)

Failure == <<"<", "f", "a", "i", "l", "e", "d", ">">>

\* the text of a reply: a label the instruction does not list, padded and dotted
ClassifierReplies == { <<" ","G","r","o","c","e","r","i","e","s",".">> }

ClassifierOutcomes == ClassifierReplies \cup {Failure}

\* response.choices[0].message.content.strip().replace(".", "")
CleanReply(content) == RemoveDots(strip(content))

----------------------------------------------------------------------------
(* run_query: a statement either takes effect or fails with sqlite3.Error, *)
(* which is caught, reported with st.error and answered by [] or False     *)

EmptyCache == <<>>

\* SELECT category FROM category_cache WHERE description=?
SelectCategory(cache, desc, ok) ==
  IF ok /\ desc \in DOMAIN cache THEN <<cache[desc]>> ELSE <<>>

\* INSERT OR REPLACE INTO category_cache (description, category) VALUES (?, ?)
InsertOrReplace(cache, desc, category, ok) ==
  IF ok THEN (desc :> category) @@ cache ELSE cache

\* the rule tier on the texts the forms can submit, computed once
RECURSIVE Tabulate(_)
Tabulate(texts) ==
  IF texts = {} THEN <<>>
  ELSE LET text == CHOOSE x \in texts : TRUE
       IN  (text :> RuleMatches(text)) @@ Tabulate(texts \ {text})

RuleTier == Tabulate({lower(strip(d)) : d \in Descriptions})

\* smart_category(description) with the store's and the classifier's answers:
\* okSelect, okInsert say whether the two statements succeed, outcome is what
\* the classifier does if it is called.  The result gives the returned label,
\* the trimmed description, the cache afterwards, whether the cache answered,
\* the number of classifier calls, whether the classifier failed and whether
\* run_query reported an error.
smart_category(description, cache, okSelect, outcome, okInsert) ==
  LET desc_clean == strip(description)
      cached     == SelectCategory(cache, desc_clean, okSelect)
      text       == lower(desc_clean)
      hits       == RuleTier[text]
  IN  IF desc_clean = <<>>
        THEN [desc |-> description, key |-> desc_clean, ret |-> Other, cache |-> cache,
              hit |-> FALSE, calls |-> 0, aifail |-> FALSE, dberr |-> FALSE]
      ELSE IF cached # <<>>
        THEN [desc |-> description, key |-> desc_clean, ret |-> cached[1], cache |-> cache,
              hit |-> TRUE, calls |-> 0, aifail |-> FALSE, dberr |-> FALSE]
      ELSE LET category == IF hits # {} THEN mapping[FirstMatch(hits)].cat
                           ELSE IF outcome = Failure THEN Other
                           ELSE CleanReply(outcome)
           IN  [desc   |-> description,
                key    |-> desc_clean,
                ret    |-> category,
                cache  |-> InsertOrReplace(cache, desc_clean, category, okInsert),
                hit    |-> FALSE,
                calls  |-> IF hits # {} THEN 0 ELSE 1,
                aifail |-> hits = {} /\ outcome = Failure,
                dberr  |-> ~okSelect \/ ~okInsert]

----------------------------------------------------------------------------
(* Dates: datetime.date as <<year, month, day>> *)

IsLeap(y) == (y % 4 = 0) /\ ((y % 100 # 0) \/ (y % 400 = 0))

DaysInMonth(y, m) ==
  IF m = 2 THEN (IF IsLeap(y) THEN 29 ELSE 28)
  ELSE IF m \in {4, 6, 9, 11} THEN 30 ELSE 31

\* d - timedelta(days=1)
PrevDay(d) ==
  IF d[3] > 1 THEN <<d[1], d[2], d[3] - 1>>
  ELSE IF d[2] > 1 THEN <<d[1], d[2] - 1, DaysInMonth(d[1], d[2] - 1)>>
  ELSE <<d[1] - 1, 12, 31>>

\* d - timedelta(days=n)
RECURSIVE Back(_, _)
Back(d, n) == IF n = 0 THEN d ELSE Back(PrevDay(d), n - 1)

RECURSIVE DaysBeforeMonth(_, _)
DaysBeforeMonth(y, m) ==
  IF m = 1 THEN 0 ELSE DaysBeforeMonth(y, m - 1) + DaysInMonth(y, m - 1)

\* date.toordinal(): the proleptic Gregorian day number
Ordinal(d) ==
  LET y == d[1] - 1
  IN  y * 365 + (y \div 4) - (y \div 100) + (y \div 400)
      + DaysBeforeMonth(d[1], d[2]) + d[3]

\* (a - b).days
DaysDiff(a, b) == Ordinal(a) - Ordinal(b)

Digit == <<"0","1","2","3","4","5","6","7","8","9">>

\* a number as n zero-padded decimal digits
RECURSIVE Pad(_, _)
Pad(v, n) == IF n = 0 THEN <<>> ELSE Pad(v \div 10, n - 1) \o <<Digit[(v % 10) + 1]>>

\* d.strftime("%Y-%m-%d")
strftime(d) == Pad(d[1], 4) \o <<"-">> \o Pad(d[2], 2) \o <<"-">> \o Pad(d[3], 2)

\* the byte order of the characters of a date string
CharRank(c) == IF c = "-" THEN 0 ELSE CHOOSE i \in 1..10 : Digit[i] = c

\* a <= b on TEXT values (SQLite's BINARY collation)
RECURSIVE TextLE(_, _)
TextLE(a, b) ==
  IF a = <<>> THEN TRUE
  ELSE IF b = <<>> THEN FALSE
  ELSE IF Head(a) = Head(b) THEN TextLE(Tail(a), Tail(b))
  ELSE CharRank(Head(a)) < CharRank(Head(b))

\* the cycle with the test today.day > 25 in place of >= 25
CycleAfter25(t) ==
  LET last_month == PrevDay(<<t[1], t[2], 1>>)
      start_date == IF t[3] > 25 THEN <<t[1], t[2], 25>>
                    ELSE <<last_month[1], last_month[2], 25>>
      end_date   == IF start_date[2] = 12 THEN <<start_date[1] + 1, 1, 24>>
                    ELSE <<start_date[1], start_date[2] + 1, 24>>
  IN  <<start_date, end_date>>

\* get_cycle_dates() when date.today() is t: <<start_date, end_date>>
get_cycle_dates(t) ==
  LET last_month == PrevDay(<<t[1], t[2], 1>>)
      start_date == IF t[3] >= 25 THEN <<t[1], t[2], 25>>
                    ELSE <<last_month[1], last_month[2], 25>>
      end_date   == IF start_date[2] = 12 THEN <<start_date[1] + 1, 1, 24>>
                    ELSE <<start_date[1], start_date[2] + 1, 24>>
  IN  <<start_date, end_date>>

----------------------------------------------------------------------------
(* Header metrics and budget line *)

RECURSIVE SumAmounts(_)
\* sum(row[3] for row in rows)
SumAmounts(rows) ==
  IF rows = {} THEN 0
  ELSE LET r == CHOOSE x \in rows : TRUE
       IN  r.amount + SumAmounts(rows \ {r})

\* SELECT * FROM expenses WHERE date BETWEEN ? AND ?
SelectBetween(rows, lo, hi, ok) ==
  IF ok THEN {r \in rows : TextLE(lo, r.date) /\ TextLE(r.date, hi)} ELSE {}

Max(a, b) == IF a >= b THEN a ELSE b

\* the budget figure without max(0, ...)
ShownUnfloored(balance, divisor) ==
  (2 * balance + 10 * divisor) \div (20 * divisor)

\* f"{max(0, daily):.2f}" with daily = balance / divisor, in cents: the
\* nearest hundredth of the quotient of two amounts
ShownDaily(balance, divisor) ==
  IF balance < 0 THEN 0
  ELSE (2 * balance + 10 * divisor) \div (20 * divisor)

\* the values one run of the script shows for the current cycle
Metrics(rows, income, t, ok) ==
  LET cycle       == get_cycle_dates(t)
      start_cycle == cycle[1]
      end_cycle   == cycle[2]
      cycle_data  == SelectBetween(rows, strftime(start_cycle), strftime(end_cycle), ok)
      spent_this_month  == SumAmounts(cycle_data)
      remaining_balance == income - spent_this_month
      days_left   == DaysDiff(end_cycle, t) + 1
  IN  [start     |-> start_cycle,
       end       |-> end_cycle,
       spent     |-> spent_this_month,
       balance   |-> remaining_balance,
       has_data  |-> cycle_data # {},
       days_left |-> days_left,
       divisor   |-> Max(days_left, 1),
       daily     |-> ShownDaily(remaining_balance, Max(days_left, 1))]

----------------------------------------------------------------------------
(* Inputs of the forms, continued *)

\* add form, number_input(min_value=0.0)
AddAmounts == {0, 12345}

\* edit form, number_input without a minimum
EditAmounts == {-5000}

\* sidebar, number_input(min_value=0.0)
Incomes == {0, 155000, 992000}

DefaultIncome == 992000

\* sc and view hold <<>> or one record
NoCall == <<>>

NoView == <<>>

\* what a step shows of its smart_category call; a step without one shows NoCall
Observed(r) ==
  <<[desc |-> r.desc, ret |-> r.ret, hit |-> r.hit, calls |-> r.calls,
     aifail |-> r.aifail]>>

\* the date the handlers of Spec run on
SessionDay == <<2024, 3, 10>>

----------------------------------------------------------------------------
(* State after init_db() on an empty database, first run of the script *)

Init ==
  /\ expenses = {}
  /\ seq = 0
  /\ category_cache = EmptyCache
  /\ confirm_reset = FALSE
  /\ monthly_income = DefaultIncome
  /\ today = SessionDay
  /\ sc = NoCall
  /\ msg = "none"
  /\ dberr = FALSE
  /\ view = NoView

\* add_form: "Log Expense"
Add(desc, amt, okSelect, outcome, okInsert, okRow) ==
  /\ seq < MaxId
  /\ IF desc # <<>> /\ amt > 0
       THEN \E r \in {smart_category(desc, category_cache, okSelect, outcome, okInsert)} :
            LET row == [id |-> seq + 1, date |-> strftime(today), description |-> desc,
                        amount |-> amt, category |-> r.ret]
            IN  /\ expenses' = IF okRow THEN expenses \cup {row} ELSE expenses
                /\ seq' = IF okRow THEN seq + 1 ELSE seq
                /\ category_cache' = r.cache
                /\ sc' = Observed(r)
                /\ dberr' = (r.dberr \/ ~okRow)
                /\ msg' = "success"
       ELSE /\ msg' = "error"
            /\ sc' = NoCall
            /\ dberr' = FALSE
            /\ UNCHANGED <<expenses, seq, category_cache>>
  /\ UNCHANGED <<confirm_reset, monthly_income, today, view>>

\* df_edit.head(10) of SELECT * FROM expenses ORDER BY date DESC, id DESC
Before(q, r) ==
  \/ (q.date # r.date /\ TextLE(r.date, q.date))
  \/ (q.date = r.date /\ q.id > r.id)

Head10(rows) == {r \in rows : Cardinality({q \in rows : Before(q, r)}) < 10}

\* DELETE FROM expenses WHERE id=?
DeleteWhereId(rows, id, ok) == IF ok THEN {r \in rows : r.id # id} ELSE rows

\* the delete button next to a recent expense
DeleteButton(id, ok) ==
  /\ \E r \in Head10(expenses) : r.id = id
  /\ expenses' = DeleteWhereId(expenses, id, ok)
  /\ dberr' = ~ok
  /\ msg' = "success"
  /\ sc' = NoCall
  /\ UNCHANGED <<seq, category_cache, confirm_reset, monthly_income, today, view>>

\* edit_form: "Save Changes"
EditSave(sel_id, new_desc, new_amt, new_cat, okSelect, outcome, okInsert, okRow) ==
  /\ \E row \in expenses :
       /\ row.id = sel_id
       /\ \E r \in {smart_category(new_desc, category_cache, okSelect, outcome, okInsert)} :
          LET changed == new_desc # row.description
              final_cat == IF changed THEN r.ret ELSE new_cat
              updated == [id |-> sel_id, date |-> row.date, description |-> new_desc,
                          amount |-> new_amt, category |-> final_cat]
          IN  /\ expenses' = IF okRow THEN (expenses \ {row}) \cup {updated} ELSE expenses
              /\ category_cache' = IF changed THEN r.cache ELSE category_cache
              /\ sc' = IF changed THEN Observed(r) ELSE NoCall
              /\ dberr' = ((changed /\ r.dberr) \/ ~okRow)
  /\ msg' = "success"
  /\ UNCHANGED <<seq, confirm_reset, monthly_income, today, view>>

\* edit_form: "Delete"
EditDelete(sel_id, ok) ==
  /\ \E r \in expenses : r.id = sel_id
  /\ expenses' = DeleteWhereId(expenses, sel_id, ok)
  /\ dberr' = ~ok
  /\ msg' = "success"
  /\ sc' = NoCall
  /\ UNCHANGED <<seq, category_cache, confirm_reset, monthly_income, today, view>>

\* sidebar: "Clear Cache"
ClearCache(ok) ==
  /\ category_cache' = IF ok THEN EmptyCache ELSE category_cache
  /\ dberr' = ~ok
  /\ msg' = "success"
  /\ sc' = NoCall
  /\ UNCHANGED <<expenses, seq, confirm_reset, monthly_income, today, view>>

\* sidebar: "Reset All"
ResetAll(okExpenses, okCache) ==
  /\ IF confirm_reset
       THEN /\ expenses' = IF okExpenses THEN {} ELSE expenses
            /\ category_cache' = IF okCache THEN EmptyCache ELSE category_cache
            /\ dberr' = (~okExpenses \/ ~okCache)
            /\ msg' = "success"
            /\ confirm_reset' = FALSE
            /\ sc' = NoCall
       ELSE /\ confirm_reset' = TRUE
            /\ msg' = "warning"
            /\ dberr' = FALSE
            /\ sc' = NoCall
            /\ UNCHANGED <<expenses, category_cache>>
  /\ UNCHANGED <<seq, monthly_income, today, view>>

\* a statement or a classifier call that is not reached draws no answer
Ran(reached) == IF reached THEN BOOLEAN ELSE {TRUE}

Asked(reached) == IF reached THEN ClassifierOutcomes ELSE {Failure}

\* smart_category(desc) gets past the empty test / past the cache / to the classifier
Looks(desc) == strip(desc) # <<>>

Misses(desc, okSelect) ==
  Looks(desc) /\ SelectCategory(category_cache, strip(desc), okSelect) = <<>>

Asks(desc, okSelect) == Misses(desc, okSelect) /\ RuleTier[lower(strip(desc))] = {}

Next ==
  \/ \E desc \in Descriptions, amt \in AddAmounts :
       \E okSelect \in Ran(desc # <<>> /\ amt > 0 /\ Looks(desc)) :
       \E outcome \in Asked(desc # <<>> /\ amt > 0 /\ Asks(desc, okSelect)) :
       \E okInsert \in Ran(desc # <<>> /\ amt > 0 /\ Misses(desc, okSelect)) :
       \E okRow \in Ran(desc # <<>> /\ amt > 0) :
         Add(desc, amt, okSelect, outcome, okInsert, okRow)
  \/ \E id \in 1..MaxId, ok \in BOOLEAN : DeleteButton(id, ok)
  \/ \E row \in expenses, new_desc \in Descriptions :
       \E new_amt \in {row.amount} \cup EditAmounts :
       \E new_cat \in IF new_desc = row.description THEN {row.category, Misc}
                      ELSE {row.category} :
       \E okSelect \in Ran(new_desc # row.description /\ Looks(new_desc)) :
       \E outcome \in Asked(new_desc # row.description /\ Asks(new_desc, okSelect)) :
       \E okInsert \in Ran(new_desc # row.description /\ Misses(new_desc, okSelect)) :
       \E okRow \in BOOLEAN :
         EditSave(row.id, new_desc, new_amt, new_cat, okSelect, outcome, okInsert, okRow)
  \/ \E id \in 1..MaxId, ok \in BOOLEAN : EditDelete(id, ok)
  \/ \E ok \in BOOLEAN : ClearCache(ok)
  \/ \E okExpenses \in Ran(confirm_reset), okCache \in Ran(confirm_reset) :
       ResetAll(okExpenses, okCache)

Spec == Init /\ [][Next]_vars

----------------------------------------------------------------------------
(* The cycle calculator and the budget projection on their own: any day of *)
(* MinYear..MaxYear, rows logged on that day and on earlier days           *)

Dates ==
  {t \in (MinYear..MaxYear) \X (1..12) \X (1..31) : t[3] <= DaysInMonth(t[1], t[2])}

\* rows logged n days before t, by offset: <<days back, amount>>
Logged == <<  <<0, 5000>>, <<1, 20000>>, <<24, 12345>>, <<31, 7000>> >>

RowsOn(t, picked) ==
  {[id |-> Len(Logged) + 1 - i, date |-> strftime(Back(t, Logged[i][1])),
    description |-> XyzDesc, amount |-> Logged[i][2], category |-> Other] : i \in picked}

InitCycle ==
  /\ today \in Dates
  /\ \E picked \in SUBSET (1..Len(Logged)) : expenses = RowsOn(today, picked)
  /\ seq = Len(Logged)
  /\ category_cache = EmptyCache
  /\ confirm_reset = FALSE
  /\ monthly_income = DefaultIncome
  /\ sc = NoCall
  /\ msg = "none"
  /\ dberr = FALSE
  /\ view = NoView

\* sidebar: "Set monthly income"
SetIncome(v) ==
  /\ monthly_income' = v
  /\ view' = NoView
  /\ UNCHANGED <<expenses, seq, category_cache, confirm_reset, today, sc, msg, dberr>>

\* one run of the script: header metrics and, in the Stats tab, the budget line
Render(ok) ==
  /\ view' = <<Metrics(expenses, monthly_income, today, ok)>>
  /\ UNCHANGED <<expenses, seq, category_cache, confirm_reset, monthly_income, today,
                 sc, msg, dberr>>

NextCycle ==
  \/ \E v \in Incomes : SetIncome(v)
  \/ \E ok \in BOOLEAN : Render(ok)

SpecCycle == InitCycle /\ [][NextCycle]_vars

----------------------------------------------------------------------------
(* Properties *)

\* the step just taken called smart_category
Called(s) == s # NoCall

\* every character is whitespace (the empty description included)
AllWhitespace(s) == \A i \in 1..Len(s) : s[i] \in Whitespace

\* D contains, case-insensitively, a keyword of the i-th category of the table
KeywordOf(i, D) ==
  \E k \in 1..Len(mapping[i].keywords) : Contains(lower(D), mapping[i].keywords[k])

RECURSIVE KeywordTable(_)
\* for each description of Ds, the categories one of whose keywords it contains
KeywordTable(Ds) ==
  IF Ds = {} THEN <<>>
  ELSE LET D == CHOOSE x \in Ds : TRUE
       IN  (D :> {i \in 1..Len(mapping) : KeywordOf(i, D)}) @@ KeywordTable(Ds \ {D})

Named == KeywordTable(Descriptions)

\* C1: once smart_category(D) has returned C for a non-empty D, a
\* smart_category(D) in the step right after it (so with no Clear Cache or
\* Reset All in between) returns C and does not call the classifier.
C1_CacheShortCircuit ==
  [][ (Called(sc) /\ Called(sc') /\ sc'[1].desc = sc[1].desc /\ sc[1].desc # <<>>)
        => (sc'[1].ret = sc[1].ret /\ sc'[1].calls = 0) ]_vars

\* C2 as stated: a description that is not in the cache and contains a keyword
\* of category C resolves to C without a classifier call, for every such C.
C2_KeywordRule ==
  [][ (Called(sc') /\ strip(sc'[1].desc) \notin DOMAIN category_cache)
        => \A i \in Named[sc'[1].desc] :
              sc'[1].ret = mapping[i].cat /\ sc'[1].calls = 0 ]_vars

\* C2 amended: a description that is not in the cache and contains a keyword
\* of category C and no keyword of a category earlier in the table resolves to
\* C without a classifier call.
C2_KeywordRuleFirst ==
  [][ (Called(sc') /\ strip(sc'[1].desc) \notin DOMAIN category_cache)
        => \A i \in Named[sc'[1].desc] :
              (\A j \in 1..(i - 1) : j \notin Named[sc'[1].desc])
                => (sc'[1].ret = mapping[i].cat /\ sc'[1].calls = 0) ]_vars

\* a mixed-case description with keywords of two categories (water: Food and
\* Utilities) was looked up, not found, and resolved by the rule table to the
\* earlier category, Food, without a classifier call
C2_Witness ==
  /\ Called(sc)
  /\ sc[1].desc = WaterDesc
  /\ ~sc[1].hit /\ ~dberr
  /\ Named[sc[1].desc] = {2, 4}
  /\ sc[1].ret = Food /\ sc[1].calls = 0

\* C3: the category of every expense row and of every cache entry, and every
\* label smart_category returns, is one of the eight labels.
C3_CategoriesInLabels ==
  /\ \A r \in expenses : r.category \in Labels
  /\ \A d \in DOMAIN category_cache : category_cache[d] \in Labels
  /\ (sc # NoCall => sc[1].ret \in Labels)

\* C4: resolving an empty or whitespace-only description returns Other, leaves
\* category_cache as it was and does not call the classifier.
C4_BlankIsOther ==
  [][ (Called(sc') /\ AllWhitespace(sc'[1].desc))
        => (sc'[1].ret = Other /\ category_cache' = category_cache
              /\ sc'[1].calls = 0) ]_vars

\* a whitespace-only description was resolved to Other while the cache held entries
C4_Witness ==
  /\ Called(sc)
  /\ sc[1].desc = Blank
  /\ sc[1].ret = Other /\ sc[1].calls = 0
  /\ category_cache # EmptyCache

\* C5: when the classifier fails, smart_category returns Other after a single
\* call and Other is in the cache under the trimmed description, so the next
\* smart_category of that description returns Other without calling the classifier.
C5_FailureIsCachedOther ==
  [][ /\ (Called(sc') /\ sc'[1].aifail)
          => /\ sc'[1].ret = Other /\ sc'[1].calls = 1
             /\ strip(sc'[1].desc) \in DOMAIN category_cache'
             /\ category_cache'[strip(sc'[1].desc)] = Other
      /\ (Called(sc) /\ sc[1].aifail /\ Called(sc') /\ sc'[1].desc = sc[1].desc)
          => (sc'[1].ret = Other /\ sc'[1].calls = 0) ]_vars

\* the 25th the claim names for a day t, without date arithmetic
ClaimedStart(t) ==
  IF t[3] >= 25 THEN <<t[1], t[2], 25>>
  ELSE IF t[2] = 1 THEN <<t[1] - 1, 12, 25>>
  ELSE <<t[1], t[2] - 1, 25>>

\* the 24th of the month after s
ClaimedEnd(s) ==
  IF s[2] = 12 THEN <<s[1] + 1, 1, 24>> ELSE <<s[1], s[2] + 1, 24>>

\* a <= b on dates
DateLE(a, b) ==
  \/ a[1] < b[1]
  \/ (a[1] = b[1] /\ a[2] < b[2])
  \/ (a[1] = b[1] /\ a[2] = b[2] /\ a[3] <= b[3])

\* C6: the cycle starts on the 25th of today's month when today's day >= 25,
\* else on the 25th of the previous month (December of the previous year for
\* January), and ends on the 24th of the month after the start; so
\* start <= today <= end.  2024-03-10 gives 2024-02-25..2024-03-24 and
\* 2024-12-30 gives 2024-12-25..2025-01-24.
C6_CycleBoundaries ==
  view # NoView =>
    /\ view[1].start = ClaimedStart(today)
    /\ view[1].end = ClaimedEnd(ClaimedStart(today))
    /\ DateLE(view[1].start, today) /\ DateLE(today, view[1].end)
    /\ (today = <<2024, 3, 10>>
          => (view[1].start = <<2024, 2, 25>> /\ view[1].end = <<2024, 3, 24>>))
    /\ (today = <<2024, 12, 30>>
          => (view[1].start = <<2024, 12, 25>> /\ view[1].end = <<2025, 1, 24>>))

\* the script ran on 10 January 2024: the cycle started on 25 December of the
\* year before and ends on 24 January
C6_Witness ==
  /\ view # NoView
  /\ today = <<2024, 1, 10>>
  /\ view[1].start = <<2023, 12, 25>> /\ view[1].end = <<2024, 1, 24>>

\* C7: every stored amount has at most two decimal places (amounts are in
\* thousandths of a euro).
C7_AmountTwoDecimals == \A r \in expenses : r.amount % 10 = 0

\* C8: every expense row has a non-empty description and an amount > 0.
C8_RowsAreValid == \A r \in expenses : r.description # <<>> /\ r.amount > 0

\* C9: a step in which a store statement failed writes nothing to either
\* table and does not report success.
C9_FailedStepWritesNothing ==
  [][ dberr' => (expenses' = expenses /\ category_cache' = category_cache
                  /\ msg' # "success") ]_vars

\* the day after d
NextDay(d) ==
  IF d[3] < DaysInMonth(d[1], d[2]) THEN <<d[1], d[2], d[3] + 1>>
  ELSE IF d[2] < 12 THEN <<d[1], d[2] + 1, 1>>
  ELSE <<d[1] + 1, 1, 1>>

\* the number of days from a to b, counted day by day; -1 beyond 62 days
RECURSIVE CountDays(_, _, _)
CountDays(a, b, fuel) ==
  IF a = b THEN 0
  ELSE IF fuel = 0 THEN -1
  ELSE LET n == CountDays(NextDay(a), b, fuel - 1)
       IN  IF n < 0 THEN -1 ELSE n + 1

\* the value of a decimal digit string
RECURSIVE Number(_)
Number(s) == IF s = <<>> THEN 0 ELSE 10 * Number(SubSeq(s, 1, Len(s) - 1)) + CharRank(s[Len(s)]) - 1

\* the date a stored YYYY-MM-DD string names
DateOf(s) == <<Number(SubSeq(s, 1, 4)), Number(SubSeq(s, 6, 7)), Number(SubSeq(s, 9, 10))>>

\* C10: days remaining = (cycle end - today) + 1 is at least 1 and is the
\* divisor; the balance is the income less the amounts of the expenses dated
\* within the cycle; the figure shown is the balance over the days remaining
\* to the nearest cent, and 0 when the balance is negative.  Balance 150 over
\* 5 days shows 30.00, balance -20 shows 0.00.
C10_DailyAllowance ==
  (view # NoView /\ view[1].has_data) =>
    LET v       == view[1]
        days    == CountDays(today, v.end, 62) + 1
        within  == {r \in expenses : DateLE(v.start, DateOf(r.date))
                                       /\ DateLE(DateOf(r.date), v.end)}
        balance == monthly_income - SumAmounts(within)
    IN  /\ days >= 1
        /\ v.days_left = days /\ v.divisor = days
        /\ v.balance = balance
        /\ (balance < 0 => v.daily = 0)
        /\ (balance >= 0 => /\ 10 * days * v.daily - balance <= 5 * days
                            /\ balance - 10 * days * v.daily <= 5 * days)
        /\ ((balance = 150000 /\ days = 5) => v.daily = 3000)
        /\ (balance = -20000 => v.daily = 0)

\* five days before the cycle ends, with 5.00 spent in the cycle out of an
\* income of 155.00, the budget line shows 30.00 a day
C10_Witness ==
  /\ view # NoView /\ view[1].has_data
  /\ monthly_income = 155000
  /\ view[1].spent = 5000 /\ view[1].balance = 150000
  /\ view[1].days_left = 5
  /\ view[1].daily = 3000

\* the category names of the rule table, in the order the loop visits them
TableOrder == [i \in 1..Len(mapping) |-> mapping[i].cat]

\* C11: for a non-empty description, smart_category returns the cached label
\* when the trimmed description is a cache key, with the cache answering and
\* no classifier call; otherwise it returns the first category, in the order
\* Transportation, Food, Entertainment, Utilities, Shopping, Education,
\* Health, one of whose keywords is in the lower-cased description; and the
\* classifier is called only when neither the cache nor any category matches.
C11_ResolutionOrder ==
  [][ (Called(sc') /\ sc'[1].desc # <<>>) =>
        LET key     == strip(sc'[1].desc)
            matches == Named[sc'[1].desc]
        IN  /\ TableOrder = <<Transportation, Food, Entertainment, Utilities,
                              Shopping, Education, Health>>
            /\ key \in DOMAIN category_cache
                 => /\ sc'[1].ret = category_cache[key]
                    /\ sc'[1].hit /\ sc'[1].calls = 0
            /\ (key \notin DOMAIN category_cache /\ matches # {})
                 => \E i \in matches :
                      /\ \A j \in 1..(i - 1) : j \notin matches
                      /\ sc'[1].ret = mapping[i].cat
            /\ sc'[1].calls > 0
                 => (key \notin DOMAIN category_cache /\ matches = {}) ]_vars

\* the step is a click on Reset All
ResetClick == \E okExpenses, okCache \in BOOLEAN : ResetAll(okExpenses, okCache)

\* C12: a Reset All click with confirm_reset false deletes nothing and sets
\* the flag; a Reset All click with the flag true deletes every expense row
\* and every cache entry and clears the flag; a step that removes more than
\* one row is a Reset All click taken with the flag set; and a step that is
\* not a Reset All click leaves the flag alone.
C12_ResetTwoClick ==
  [][ /\ (ResetClick /\ ~confirm_reset)
           => /\ expenses' = expenses /\ category_cache' = category_cache
              /\ confirm_reset'
      /\ (ResetClick /\ confirm_reset)
           => /\ expenses' = {} /\ category_cache' = EmptyCache
              /\ ~confirm_reset'
      /\ Cardinality(expenses') + 1 < Cardinality(expenses)
           => (ResetClick /\ confirm_reset)
      /\ confirm_reset' # confirm_reset => ResetClick ]_vars
====
